---- MODULE Spec2Model ----
(***************************************************************************)
(* Model of the climate choropleth page (MapLibre + d3): the data join,    *)
(* the yearly sea-level average, the two colour scales, the asynchronous   *)
(* start-up (Promise.all of the fetches, then map.on("load")) and the      *)
(* year / mode handlers with the updateMap / updateLegend recomputation.   *)
(*                                                                         *)
(* JavaScript values are tagged records:                                   *)
(*   [t |-> "undef"], [t |-> "null"], [t |-> "str", s |-> <<chars>>],      *)
(*   [t |-> "num", n |-> numerator, d |-> denominator].                    *)
(* A number is an exact fraction n/d in lowest terms with d > 0; d = 0     *)
(* encodes the IEEE specials: 0/0 is NaN, 1/0 is +Infinity, -1/0 is        *)
(* -Infinity.  A string is the sequence of its characters, so that trim,   *)
(* slice and parseInt are computed on the characters.                      *)
(***************************************************************************)
EXTENDS Integers, Sequences, FiniteSets, TLC

(***************************************************************************)
(* JavaScript values.                                                      *)
(***************************************************************************)
Undef == [t |-> "undef"]
Null == [t |-> "null"]
Str(s) == [t |-> "str", s |-> s]
Obj(o) == [t |-> "obj", o |-> o]

Abs(i) == IF i < 0 THEN -i ELSE i

RECURSIVE Gcd(_, _)
Gcd(a, b) == IF b = 0 THEN a ELSE Gcd(b, a % b)

\* the number n/d (d may be negative or zero), in the canonical form
Num(n, d) ==
  IF d = 0
  THEN [t |-> "num", n |-> (IF n > 0 THEN 1 ELSE IF n < 0 THEN -1 ELSE 0), d |-> 0]
  ELSE LET g == Gcd(Abs(n), Abs(d))
           s == IF d < 0 THEN -1 ELSE 1
       IN [t |-> "num", n |-> (s * n) \div g, d |-> (s * d) \div g]

Int2Num(i) == Num(i, 1)
NaN == Num(0, 0)
IsNaN(v) == v.t = "num" /\ v.d = 0 /\ v.n = 0

\* a == null in JavaScript: true of null and of undefined only
IsNullish(v) == v.t \in {"undef", "null"}

\* ToBoolean
Truthy(v) ==
  CASE v.t = "undef" -> FALSE
    [] v.t = "null" -> FALSE
    [] v.t = "str" -> Len(v.s) > 0
    [] v.t = "num" -> ~(v.n = 0)
    [] OTHER -> TRUE

\* a || b
Or(a, b) == IF Truthy(a) THEN a ELSE b

\* IEEE arithmetic on the encoded numbers (the operands are numbers)
NumAdd(a, b) ==
  IF a.d > 0 /\ b.d > 0 THEN Num(a.n * b.d + b.n * a.d, a.d * b.d)
  ELSE IF IsNaN(a) \/ IsNaN(b) THEN NaN
  ELSE IF a.d = 0 /\ b.d = 0 THEN (IF a.n = b.n THEN a ELSE NaN)
  ELSE IF a.d = 0 THEN a ELSE b

NumNeg(a) == [a EXCEPT !.n = -a.n]
NumSub(a, b) == NumAdd(a, NumNeg(b))

NumDiv(a, b) ==
  IF a.d > 0 /\ b.d > 0 THEN Num(a.n * b.d, a.d * b.n)
  ELSE IF IsNaN(a) \/ IsNaN(b) THEN NaN
  ELSE IF a.d = 0 /\ b.d = 0 THEN NaN
  ELSE IF a.d = 0 THEN Num((IF b.n < 0 THEN -a.n ELSE a.n), 0)
  ELSE Int2Num(0)

\* a < b; false when either operand is NaN
NumLt(a, b) ==
  IF IsNaN(a) \/ IsNaN(b) THEN FALSE
  ELSE IF a.d > 0 /\ b.d > 0 THEN a.n * b.d < b.n * a.d
  ELSE IF a.d = 0 /\ b.d = 0 THEN a.n < b.n
  ELSE IF a.d = 0 THEN a.n < 0 ELSE b.n > 0

NumLe(a, b) == ~IsNaN(a) /\ ~IsNaN(b) /\ ~NumLt(b, a)

\* Math.min(a, b), Math.max(a, b): NaN if either operand is NaN
MathMin2(a, b) == IF IsNaN(a) \/ IsNaN(b) THEN NaN ELSE IF NumLt(b, a) THEN b ELSE a
MathMax2(a, b) == IF IsNaN(a) \/ IsNaN(b) THEN NaN ELSE IF NumLt(a, b) THEN b ELSE a

\* Math.min(...list), Math.max(...list): +Infinity / -Infinity of the empty list
RECURSIVE MathMin(_)
MathMin(list) == IF list = <<>> THEN Num(1, 0) ELSE MathMin2(Head(list), MathMin(Tail(list)))

RECURSIVE MathMax(_)
MathMax(list) == IF list = <<>> THEN Num(-1, 0) ELSE MathMax2(Head(list), MathMax(Tail(list)))

(***************************************************************************)
(* Strings as character sequences.                                         *)
(***************************************************************************)
WhiteSpace == {" "}
Digits == {"0", "1", "2", "3", "4", "5", "6", "7", "8", "9"}
DigitVal(c) ==
  CASE c = "0" -> 0 [] c = "1" -> 1 [] c = "2" -> 2 [] c = "3" -> 3 [] c = "4" -> 4
    [] c = "5" -> 5 [] c = "6" -> 6 [] c = "7" -> 7 [] c = "8" -> 8 [] c = "9" -> 9

RECURSIVE TrimStart(_)
TrimStart(s) == IF s # <<>> /\ Head(s) \in WhiteSpace THEN TrimStart(Tail(s)) ELSE s

RECURSIVE TrimEnd(_)
TrimEnd(s) ==
  IF s # <<>> /\ s[Len(s)] \in WhiteSpace THEN TrimEnd(SubSeq(s, 1, Len(s) - 1)) ELSE s

\* String.prototype.trim
Trim(s) == TrimEnd(TrimStart(s))

\* String.prototype.slice(-k): the last k characters (the whole string if shorter)
SliceLast(s, k) == IF Len(s) <= k THEN s ELSE SubSeq(s, Len(s) - k + 1, Len(s))

\* the value of the longest prefix of decimal digits of s, having read acc
RECURSIVE DigitsValue(_, _)
DigitsValue(s, acc) ==
  IF s # <<>> /\ Head(s) \in Digits
  THEN DigitsValue(Tail(s), 10 * acc + DigitVal(Head(s)))
  ELSE acc

\* parseInt(s): skips leading white space, an optional sign, then reads the
\* longest run of decimal digits; NaN when there is no digit to read
ParseInt(s) ==
  LET u == TrimStart(s)
      neg == u # <<>> /\ Head(u) = "-"
      body == IF u # <<>> /\ Head(u) \in {"-", "+"} THEN Tail(u) ELSE u
  IN IF body = <<>> \/ Head(body) \notin Digits THEN NaN
     ELSE Int2Num((IF neg THEN -1 ELSE 1) * DigitsValue(body, 0))

\* Number(v): the numeric conversion of a value
ToNumber(v) ==
  CASE v.t = "undef" -> NaN
    [] v.t = "null" -> Int2Num(0)
    [] v.t = "num" -> v
    [] v.t = "str" ->
         LET u == Trim(v.s)
             neg == u # <<>> /\ Head(u) = "-"
             body == IF u # <<>> /\ Head(u) \in {"-", "+"} THEN Tail(u) ELSE u
         IN IF u = <<>> THEN Int2Num(0)
            ELSE IF body # <<>> /\ \A i \in 1..Len(body) : body[i] \in Digits
            THEN Int2Num((IF neg THEN -1 ELSE 1) * DigitsValue(body, 0))
            ELSE NaN

(***************************************************************************)
(* Objects: a JavaScript object is a function from property names to       *)
(* values; reading a property that is not there gives undefined.           *)
(***************************************************************************)
EmptyObject == [k \in {} |-> Undef]
HasOwn(obj, key) == key \in DOMAIN obj
Get(obj, key) == IF key \in DOMAIN obj THEN obj[key] ELSE Undef

\* { ...obj, ...over }: the properties of over replace those of obj
Spread(obj, over) == over @@ obj

\* obj[key] = v
Put(obj, key, v) == (key :> v) @@ obj

\* a sequence of the elements of a finite set, in some order
RECURSIVE SeqOfSet(_)
SeqOfSet(S) == IF S = {} THEN <<>> ELSE LET x == CHOOSE x \in S : TRUE IN <<x>> \o SeqOfSet(S \ {x})

\* Object.values(obj)
ObjectValues(obj) == LET ks == SeqOfSet(DOMAIN obj) IN [i \in 1..Len(ks) |-> obj[ks[i]]]

(***************************************************************************)
(* Colours.  A palette colour is the palette with the position handed to   *)
(* it (d3.interpolateYlOrRd(t), d3.interpolateBlues(t)); the fixed colours *)
(* are CSS strings.                                                        *)
(***************************************************************************)
Palette(name, t) == [t |-> "color", palette |-> name, pos |-> t]
Css(c) == [t |-> "css", c |-> c]
LayerFallback == Css("#e0e0e0")
OceanFallback == Css("#aac6ff")
OceanInitial == Css("#aac6ff")

\* Math.max(0, Math.min(t, 1))
Clamp01(t) == MathMax2(Int2Num(0), MathMin2(t, Int2Num(1)))

\* the position without the clamp
TempPosUnclamped(v) == NumDiv(NumAdd(v, Int2Num(2)), Int2Num(5))

\* the palette position getTempColor computes: the scale -2 .. +3 onto 0 .. 1
TempPos(v) == Clamp01(NumDiv(NumAdd(v, Int2Num(2)), Int2Num(5)))

getTempColor(v) == Palette("YlOrRd", TempPos(v))

\* the palette position getSeaColor computes
SeaPos(v, minSea, maxSea) == Clamp01(NumDiv(NumSub(v, minSea), NumSub(maxSea, minSea)))

getSeaColor(v, minSea, maxSea) == Palette("Blues", SeaPos(v, minSea, maxSea))

(***************************************************************************)
(* The temperature table lookup.                                           *)
(***************************************************************************)
\* the column names tried for a year, in order: "1992", "F1992", "Y1992"
YearCandidates(year) == <<ToString(year), "F" \o ToString(year), "Y" \o ToString(year)>>

\* the value of one present column: null when it is null, undefined, the
\* empty string or not numeric, the number otherwise
ColumnValue(raw) ==
  IF IsNullish(raw) \/ raw = Str(<<>>) \/ IsNaN(ToNumber(raw)) THEN Null ELSE ToNumber(raw)

\* the for loop from candidate i on, going on to the next candidate when the
\* column the row owns is empty or not numeric
RECURSIVE TempValueSkipsEmpty(_, _, _)
TempValueSkipsEmpty(props, cands, i) ==
  IF i > Len(cands) THEN Null
  ELSE IF HasOwn(props, cands[i]) /\ ColumnValue(props[cands[i]]) # Null
       THEN ColumnValue(props[cands[i]])
  ELSE TempValueSkipsEmpty(props, cands, i + 1)

\* the for loop from candidate i on: the first column the row owns decides
RECURSIVE TempValueFrom(_, _, _)
TempValueFrom(props, cands, i) ==
  IF i > Len(cands) THEN Null
  ELSE IF HasOwn(props, cands[i]) THEN ColumnValue(props[cands[i]])
  ELSE TempValueFrom(props, cands, i + 1)

getTempValue(props, year) == TempValueFrom(props, YearCandidates(year), 1)

(***************************************************************************)
(* The join key of a geometry feature and the index of the table.          *)
(***************************************************************************)
KeyCandidates == <<"ISO3", "ISO_A3", "ADM0_A3", "adm0_a3", "SOV_A3", "sov_a3">>

\* props.ISO3 || props.ISO_A3 || ... || "": the first truthy candidate
RECURSIVE FirstTruthy(_, _, _)
FirstTruthy(props, names, i) ==
  IF i > Len(names) THEN Str(<<>>)
  ELSE Or(Get(props, names[i]), FirstTruthy(props, names, i + 1))

\* iso of updateMap: the trimmed first truthy candidate, "" when there is none
ResolveIso(props) == Str(Trim(FirstTruthy(props, KeyCandidates, 1).s))

\* f.properties || {}
PropsOf(f) == IF Truthy(f.properties) THEN f.properties.o ELSE EmptyObject

\* an index build that keeps the first row of a key
RECURSIVE BuildIndexFirstWins(_, _, _)
BuildIndexFirstWins(rows, i, acc) ==
  IF i > Len(rows) THEN acc
  ELSE LET p == PropsOf(rows[i])
           iso == Str(Trim(Or(Get(p, "ISO3"), Str(<<>>)).s))
       IN BuildIndexFirstWins(rows, i + 1,
            IF Truthy(iso) /\ ~HasOwn(acc, iso.s) THEN Put(acc, iso.s, Obj(p)) ELSE acc)

\* the forEach of the index build, from row i on, into the index acc
RECURSIVE BuildIndexFrom(_, _, _)
BuildIndexFrom(rows, i, acc) ==
  IF i > Len(rows) THEN acc
  ELSE LET p == PropsOf(rows[i])
           iso == Str(Trim(Or(Get(p, "ISO3"), Str(<<>>)).s))
       IN BuildIndexFrom(rows, i + 1, IF Truthy(iso) THEN Put(acc, iso.s, Obj(p)) ELSE acc)

BuildIndex(rows, acc) == BuildIndexFrom(rows, 1, acc)

(***************************************************************************)
(* processSeaLevels: the dated records into one average per year.          *)
(* The keys of yearly and of seaByYear are the numbers parseInt returns    *)
(* (their strings in the page; the conversion is one to one on them).      *)
(***************************************************************************)
\* a grouping that takes a missing value for a zero
RECURSIVE GroupByYearZeroForMissing(_, _, _)
GroupByYearZeroForMissing(recs, i, acc) ==
  IF i > Len(recs) THEN acc
  ELSE LET p == recs[i].properties.o
           date == Get(p, "Date")
           val == IF IsNullish(Get(p, "Value")) THEN Int2Num(0) ELSE Get(p, "Value")
       IN IF ~Truthy(date)
          THEN GroupByYearZeroForMissing(recs, i + 1, acc)
          ELSE LET year == ParseInt(SliceLast(date.s, 4))
                   arr == IF HasOwn(acc, year) THEN acc[year] ELSE <<>>
               IN GroupByYearZeroForMissing(recs, i + 1, Put(acc, year, Append(arr, val)))

\* the forEach over the records from record i on, into the groups acc
RECURSIVE GroupByYearFrom(_, _, _)
GroupByYearFrom(recs, i, acc) ==
  IF i > Len(recs) THEN acc
  ELSE LET p == recs[i].properties.o
           date == Get(p, "Date")
           val == Get(p, "Value")
       IN IF ~Truthy(date) \/ IsNullish(val)
          THEN GroupByYearFrom(recs, i + 1, acc)
          ELSE LET year == ParseInt(SliceLast(date.s, 4))
                   arr == IF HasOwn(acc, year) THEN acc[year] ELSE <<>>
               IN GroupByYearFrom(recs, i + 1, Put(acc, year, Append(arr, val)))

\* arr.reduce((a, b) => a + b, 0)
RECURSIVE SumOf(_)
SumOf(arr) == IF arr = <<>> THEN Int2Num(0) ELSE NumAdd(SumOf(SubSeq(arr, 1, Len(arr) - 1)), arr[Len(arr)])

Average(arr) == NumDiv(SumOf(arr), Int2Num(Len(arr)))

\* the yearly averages of a data set, written over the series old
processSeaLevels(gdf, old) ==
  LET yearly == GroupByYearFrom(gdf.features, 1, EmptyObject)
  IN [y \in DOMAIN yearly |-> Average(yearly[y])] @@ old

(***************************************************************************)
(* updateMap and updateLegend.                                             *)
(***************************************************************************)
\* an update that takes a feature without a row for a zero
UpdatedFeatureZeroDefault(f, index, year) ==
  LET props == PropsOf(f)
      iso == ResolveIso(props)
      tempRow == IF Truthy(iso) THEN Get(index, iso.s) ELSE Null
      val == IF Truthy(tempRow) THEN getTempValue(tempRow.o, year) ELSE Int2Num(0)
      color == IF ~IsNullish(val) THEN getTempColor(val) ELSE Null
  IN [f EXCEPT !.properties = Obj(Spread(props, [value |-> val, value_color |-> color]))]

\* the feature updateMap makes of a geometry feature
UpdatedFeature(f, index, year) ==
  LET props == PropsOf(f)
      iso == ResolveIso(props)
      tempRow == IF Truthy(iso) THEN Get(index, iso.s) ELSE Null
      val == IF Truthy(tempRow) THEN getTempValue(tempRow.o, year) ELSE Null
      color == IF ~IsNullish(val) THEN getTempColor(val) ELSE Null
  IN [f EXCEPT !.properties = Obj(Spread(props, [value |-> val, value_color |-> color]))]

\* { ...worldGeom, features: worldGeom.features.map(...) }
UpdatedCollection(geom, index, year) ==
  [geom EXCEPT !.features = [i \in 1..Len(geom.features) |->
                               UpdatedFeature(geom.features[i], index, year)]]

\* the colour of the ocean for a year
OceanColor(series, year) ==
  LET seaVal == Get(series, Int2Num(year))
      allVals == ObjectValues(series)
      minSea == MathMin(allVals)
      maxSea == MathMax(allVals)
  IN IF ~IsNullish(seaVal) THEN getSeaColor(seaVal, minSea, maxSea) ELSE OceanFallback

\* Number.prototype.toFixed(0): the nearest integer, a tie away from zero
ToFixed0(v) ==
  IF v.d = 0 THEN v
  ELSE LET a == Abs(v.n)
           r == (2 * a + v.d) \div (2 * v.d)
       IN Int2Num(IF v.n < 0 THEN -r ELSE r)

\* what updateLegend shows for a mode
LegendOf(m, series) ==
  IF m = "temp"
  THEN [title |-> "Temperature Anomaly (degC)", palette |-> "YlOrRd",
        minLabel |-> Int2Num(-2), maxLabel |-> Int2Num(3), unit |-> "degC"]
  ELSE [title |-> "Global Sea Level (mm)", palette |-> "Blues",
        minLabel |-> ToFixed0(MathMin(ObjectValues(series))),
        maxLabel |-> ToFixed0(MathMax(ObjectValues(series))), unit |-> "mm"]

\* the fill colour the climate-fill layer paints a feature with:
\* ["coalesce", ["get", "value_color"], "#e0e0e0"]
Coalesce(v, fallback) == IF IsNullish(v) THEN fallback ELSE v
FillColor(f) == Coalesce(Get(PropsOf(f), "value_color"), LayerFallback)

\* a setData that adds the features to those the source holds
setDataAppends(old, data) ==
  IF old = Undef THEN data ELSE [data EXCEPT !.features = old.features \o data.features]

\* source.setData(data): the data of the source is replaced
setData(old, data) == data

\* source.setData(data) and the ocean paint once the source and the geometry
\* are there: the paint is set when the layer exists, the failure is caught
\* and logged when it does not
UpdateSurface(lyrs, geom, index, series, year, pub, paint) ==
  LET updated == UpdatedCollection(geom, index, year)
      oceanColor == OceanColor(series, year)
  IN IF "ocean-fill" \in lyrs
     THEN [published |-> setData(pub, updated), oceanPaint |-> oceanColor,
           ops |-> <<"setData", "setPaintProperty">>, thrown |-> FALSE]
     ELSE [published |-> setData(pub, updated), oceanPaint |-> paint,
           ops |-> <<"setData", "console.warn">>, thrown |-> FALSE]

\* an updateMap without the guard: src.setData fails on the missing source
UpdateMapUnguarded(srcs, lyrs, geom, index, series, year, pub, paint) ==
  IF "climate" \notin srcs \/ ~Truthy(geom)
  THEN [published |-> pub, oceanPaint |-> paint, ops |-> <<>>, thrown |-> TRUE]
  ELSE UpdateSurface(lyrs, geom, index, series, year, pub, paint)

\* the effect of updateMap on the rendering surface: the data of the climate
\* source, the fill colour of the ocean layer, the calls made, and whether
\* an error reaches the caller
UpdateMap(srcs, lyrs, geom, index, series, year, pub, paint) ==
  IF "climate" \notin srcs \/ ~Truthy(geom)
  THEN [published |-> pub, oceanPaint |-> paint, ops |-> <<>>, thrown |-> FALSE]
  ELSE UpdateSurface(lyrs, geom, index, series, year, pub, paint)

(***************************************************************************)
(* The data files the page fetches.                                        *)
(***************************************************************************)
Collection(feats) == [t |-> "obj", type |-> "FeatureCollection", features |-> feats]
Feature(geom, props) == [t |-> "obj", type |-> "Feature", geometry |-> geom, properties |-> props]

USA == Str(<<"U", "S", "A">>)
FRA == Str(<<"F", "R", "A">>)
XYZ == Str(<<"X", "Y", "Z">>)
PaddedUSA == Str(<<" ", "U", "S", "A">>)
PaddedFRA == Str(<<" ", "F", "R", "A", " ">>)
Blank == Str(<<" ", " ">>)
Empty == Str(<<>>)

WorldA ==
  Collection(<<Feature("g1", Obj([Country |-> Str(<<"N">>)])),
               Feature("g2", Obj([ISO3 |-> USA, Country |-> Str(<<"U">>)])),
               Feature("g3", Obj([ADM0_A3 |-> USA, adm0_a3 |-> FRA]))>>)
WorldB ==
  Collection(<<Feature("g1", Undef),
               Feature("g2", Obj([ISO_A3 |-> PaddedFRA])),
               Feature("g3", Obj([ISO3 |-> Empty, SOV_A3 |-> USA]))>>)
WorldC ==
  Collection(<<Feature("g1", Obj([ISO3 |-> Blank, ISO_A3 |-> USA])),
               Feature("g2", Obj([ISO3 |-> XYZ])),
               Feature("g3", Obj([sov_a3 |-> FRA, value_color |-> Str(<<"r", "e", "d">>)])),
               Feature("g4", Obj([NAME |-> Str(<<"N">>), value |-> Int2Num(9),
                                  value_color |-> Str(<<"r", "e", "d">>)]))>>)
WorldFiles == {WorldA, WorldB, WorldC}

Row(props) == Feature(Null, Obj(props))

TempA ==
  Collection(<<Row(("ISO3" :> USA) @@ ("1992" :> Int2Num(1)) @@ ("1993" :> Int2Num(2))),
               Row(("ISO3" :> FRA) @@ ("F1992" :> Int2Num(-3)) @@ ("F1993" :> Int2Num(4)))>>)
TempB ==
  Collection(<<Row(("ISO3" :> PaddedUSA) @@ ("F1992" :> Int2Num(0))),
               Row(("ISO3" :> USA) @@ ("F1992" :> Int2Num(3)) @@ ("Y1993" :> Num(1, 2))),
               Row(("ISO3" :> Blank) @@ ("F1992" :> Int2Num(1))),
               Feature(Null, Undef)>>)
TempC ==
  Collection(<<Row(("ISO3" :> USA) @@ ("1992" :> Empty) @@ ("F1992" :> Int2Num(2))
                   @@ ("F1993" :> Str(<<"-", "1">>))),
               Row(("ISO3" :> FRA) @@ ("1992" :> Str(<<"n", "a">>)) @@ ("Y1992" :> Int2Num(1))
                   @@ ("Y1993" :> Null))>>)
TempFiles == {TempA, TempB, TempC}

Date1992a == Str(<<"D", "1", "0", "/", "1", "7", "/", "1", "9", "9", "2">>)
Date1992b == Str(<<"D", "1", "2", "/", "3", "1", "/", "1", "9", "9", "2">>)
Date1993 == Str(<<"D", "0", "1", "/", "0", "5", "/", "1", "9", "9", "3">>)

Rec(props) == Feature(Null, Obj(props))

SeaA ==
  Collection(<<Rec([Date |-> Date1992a, Value |-> Int2Num(10)]),
               Rec([Date |-> Date1993, Value |-> Int2Num(40)]),
               Rec([Date |-> Date1992b, Value |-> Int2Num(20)])>>)
SeaB ==
  Collection(<<Rec([Value |-> Int2Num(5)]),
               Rec([Date |-> Date1992a, Value |-> Null]),
               Rec([Date |-> Date1992b, Value |-> Int2Num(0)]),
               Rec([Date |-> Empty, Value |-> Int2Num(3)]),
               Rec([Date |-> Date1993, Value |-> Int2Num(7)]),
               Rec([Date |-> Date1993])>>)
SeaC ==
  Collection(<<Rec([Date |-> Date1993, Value |-> Int2Num(5)]),
               Rec([Date |-> Date1993, Value |-> Int2Num(5)])>>)
SeaD == Collection(<<>>)
SeaFiles == {SeaA, SeaB, SeaC, SeaD}

(***************************************************************************)
(* The page as a state machine.                                            *)
(***************************************************************************)
\* the year the page starts with, and the years the slider offers
InitialYear == 1992
NumYears == 3
Years == InitialYear..(InitialYear + NumYears - 1)
Modes == {"temp", "sea"}
Datasets == {"world", "temp", "sea"}

VARIABLES
  files,        \* what the three URLs serve: [world, temp, sea]
  fetched,      \* the fetches that have resolved
  worldGeom,    \* the globals of the page
  tempTable,
  tempByISO,
  seaData,
  seaByYear,
  currentYear,
  mode,
  loadHandler,  \* map.on("load", ...) has been called
  mapLoad,      \* "pending" or "fired": the one load event of the map
  sources,      \* the sources and layers of the map
  layers,
  published,    \* the data last given to the climate source by setData
  oceanPaint,   \* the fill colour of the ocean-fill layer
  legend,       \* the content of the legend element
  handlers,     \* the handlers of the controls that are attached
  ops,          \* the calls the last updateMap made on the map
  trace,        \* the last user events, each with the state it found
  call          \* the function applied and its result (function checks only)

dataVars == <<worldGeom, tempTable, tempByISO, seaData, seaByYear>>
surfaceVars == <<sources, layers, published, oceanPaint, ops>>
vars == <<files, fetched, worldGeom, tempTable, tempByISO, seaData, seaByYear, currentYear,
          mode, loadHandler, mapLoad, sources, layers, published, oceanPaint, legend,
          handlers, ops, trace, call>>

NoCall == [fn |-> "none"]
Controls == {"yearSlider.oninput", "modeTemp.onclick", "modeSea.onclick",
             "mousemove", "mouseleave"}

\* the state when the script has run to its end: the fetches are under way
ProgInit ==
  /\ fetched = {}
  /\ worldGeom = Undef /\ tempTable = Undef /\ seaData = Undef
  /\ tempByISO = EmptyObject /\ seaByYear = EmptyObject
  /\ currentYear = InitialYear /\ mode = "temp"
  /\ loadHandler = FALSE /\ mapLoad = "pending"
  /\ sources = {} /\ layers = {}
  /\ published = Undef /\ oceanPaint = Undef
  /\ legend = Undef /\ handlers = {}
  /\ ops = <<>> /\ trace = <<>>

Init ==
  /\ files \in [world : WorldFiles, temp : TempFiles, sea : SeaFiles]
  /\ ProgInit
  /\ call = NoCall

\* one fetch(...).then(r => r.json()) resolves
FetchDone(d) ==
  /\ d \in Datasets \ fetched
  /\ fetched' = fetched \cup {d}
  /\ UNCHANGED <<files, dataVars, currentYear, mode, loadHandler, mapLoad, surfaceVars,
                 legend, handlers, trace, call>>

\* Promise.all resolves once every fetch has
\* a Promise.race in its place: resolved with the first fetch
AnyResolved(done) == done # {}
AllResolved(done) == done = Datasets

\* the callback of Promise.all(...).then: the globals, the index, the yearly
\* series, and the registration of the load handler
AllLoaded ==
  /\ AllResolved(fetched)
  /\ ~loadHandler
  /\ worldGeom' = files.world
  /\ seaData' = files.sea
  /\ tempTable' = files.temp
  /\ tempByISO' = BuildIndex(files.temp.features, tempByISO)
  /\ seaByYear' = processSeaLevels(files.sea, seaByYear)
  /\ loadHandler' = TRUE
  /\ UNCHANGED <<files, fetched, currentYear, mode, mapLoad, surfaceVars, legend, handlers,
                 trace, call>>

\* the map fires "load" while the handler is registered: the sources and
\* layers are added, then setupInteraction, updateLegend and updateMap run
MapLoadHandled ==
  /\ mapLoad = "pending"
  /\ loadHandler
  /\ mapLoad' = "fired"
  /\ sources' = sources \cup {"climate", "ocean-mask"}
  /\ layers' = layers \cup {"climate-fill", "ocean-fill"}
  /\ handlers' = Controls
  /\ legend' = LegendOf(mode, seaByYear)
  /\ \E r \in {UpdateMap(sources', layers', worldGeom, tempByISO, seaByYear, currentYear,
                          published, OceanInitial)} :
       /\ published' = r.published
       /\ oceanPaint' = r.oceanPaint
       /\ ops' = r.ops
  /\ UNCHANGED <<files, fetched, dataVars, currentYear, mode, loadHandler, trace, call>>

\* the map fires "load" before any handler is registered: nothing listens
MapLoadLost ==
  /\ mapLoad = "pending"
  /\ ~loadHandler
  /\ mapLoad' = "fired"
  /\ UNCHANGED <<files, fetched, dataVars, currentYear, mode, loadHandler, surfaceVars,
                 legend, handlers, trace, call>>

\* the two transitions of the render state
SetYear(rs, y) == [rs EXCEPT !.currentYear = y]
\* a mode switch that puts the year back to the initial one
SetModeResetsYear(rs, m) == [currentYear |-> InitialYear, mode |-> m]
SetMode(rs, m) == [rs EXCEPT !.mode = m]

\* a handler that refreshes the legend only
RecomputeLegendOnly(rs) ==
  [upd |-> [published |-> published, oceanPaint |-> oceanPaint, ops |-> <<>>,
            thrown |-> FALSE],
   legend |-> LegendOf(rs.mode, seaByYear)]

\* what a handler does after it has set the render state to rs:
\* updateMap(), then updateLegend()
Recompute(rs) ==
  [upd |-> UpdateMap(sources, layers, worldGeom, tempByISO, seaByYear, rs.currentYear,
                     published, oceanPaint),
   legend |-> LegendOf(rs.mode, seaByYear)]

\* the last two events, each with the render state and the surface it found
Remember(ev) ==
  LET e == [ev |-> ev, year |-> currentYear, mode |-> mode,
            published |-> published, oceanPaint |-> oceanPaint]
  IN IF trace = <<>> THEN <<e>> ELSE <<trace[Len(trace)], e>>

\* a user event: the handler has set the render state to rs, then recomputes
Handle(ev, rs) ==
  /\ currentYear' = rs.currentYear
  /\ mode' = rs.mode
  /\ \E r \in {Recompute(rs)} :
       /\ published' = r.upd.published
       /\ oceanPaint' = r.upd.oceanPaint
       /\ ops' = r.upd.ops
       /\ legend' = r.legend
  /\ trace' = Remember(ev)
  /\ UNCHANGED <<files, fetched, dataVars, loadHandler, mapLoad, sources, layers, handlers,
                 call>>

\* yearSlider.oninput
YearInput(y) ==
  /\ "yearSlider.oninput" \in handlers
  /\ Handle("year", SetYear([currentYear |-> currentYear, mode |-> mode], y))

\* modeTemp.onclick
ModeTempClick ==
  /\ "modeTemp.onclick" \in handlers
  /\ Handle("modeTemp", SetMode([currentYear |-> currentYear, mode |-> mode], "temp"))

\* modeSea.onclick
ModeSeaClick ==
  /\ "modeSea.onclick" \in handlers
  /\ Handle("modeSea", SetMode([currentYear |-> currentYear, mode |-> mode], "sea"))

Next ==
  \/ \E d \in Datasets : FetchDone(d)
  \/ AllLoaded
  \/ MapLoadHandled
  \/ MapLoadLost
  \/ \E y \in Years : YearInput(y)
  \/ ModeTempClick
  \/ ModeSeaClick

Spec == Init /\ [][Next]_vars

(***************************************************************************)
(* Properties of the page (specification Spec).                            *)
(***************************************************************************)
FeaturesOf(coll) == IF coll = Undef THEN <<>> ELSE coll.features

\* the feature has none of the recognized join-key properties
NoKeyProps(f) == \A i \in 1..Len(KeyCandidates) : ~HasOwn(PropsOf(f), KeyCandidates[i])

\* the value and the colour updateMap gave each feature
PerFeature(coll) ==
  [i \in 1..Len(FeaturesOf(coll)) |->
     <<Get(PropsOf(coll.features[i]), "value"), Get(PropsOf(coll.features[i]), "value_color")>>]

HasColoured(coll) ==
  \E i \in 1..Len(FeaturesOf(coll)) : Get(PropsOf(coll.features[i]), "value_color").t = "color"

\* C1 as stated: in every published collection a feature without any join-key
\* property has value null and value_color equal to the fallback colour
C1_ValueColorIsFallback ==
  \A i \in 1..Len(FeaturesOf(published)) :
    LET f == published.features[i]
    IN NoKeyProps(f) => /\ Get(PropsOf(f), "value") = Null
                        /\ Get(PropsOf(f), "value_color") = LayerFallback

\* C1 (amended): in every published collection a feature without any join-key
\* property has value null and value_color null; the fallback colour is what
\* the coalesce expression of the climate-fill layer paints it with
C1_NullColorPaintedFallback ==
  \A i \in 1..Len(FeaturesOf(published)) :
    LET f == published.features[i]
    IN NoKeyProps(f) => /\ Get(PropsOf(f), "value") = Null
                        /\ Get(PropsOf(f), "value_color") = Null
                        /\ FillColor(f) = LayerFallback

C1_Witness ==
  /\ \E i \in 1..Len(FeaturesOf(published)) : NoKeyProps(published.features[i])
  /\ HasColoured(published)

\* C2: the index, the yearly series and the load handler exist only once every
\* fetch has resolved; sources, layers, handlers, the legend and the first
\* update exist only once, on top of that, the map has fired load
C2_ReadyOnlyAfterAllLoaded ==
  /\ (loadHandler \/ worldGeom # Undef \/ tempTable # Undef \/ seaData # Undef
        \/ tempByISO # EmptyObject \/ seaByYear # EmptyObject)
       => fetched = Datasets
  /\ (handlers # {} \/ sources # {} \/ layers # {} \/ published # Undef
        \/ oceanPaint # Undef \/ legend # Undef \/ ops # <<>>)
       => (fetched = Datasets /\ loadHandler /\ mapLoad = "fired" /\ worldGeom = files.world
           /\ tempByISO = BuildIndex(files.temp.features, EmptyObject))

C2_Witness == handlers = Controls /\ published # Undef /\ tempByISO # EmptyObject

\* C4: once the handlers are attached, whatever events have been handled, the
\* published collection, the ocean colour and the legend are those of the
\* current year and mode, and each event has made the full update
C4_SurfaceFollowsRenderState ==
  handlers # {} =>
    /\ published = UpdatedCollection(worldGeom, tempByISO, currentYear)
    /\ oceanPaint = OceanColor(seaByYear, currentYear)
    /\ legend = LegendOf(mode, seaByYear)
    /\ ops = <<"setData", "setPaintProperty">>

C4_Witness ==
  /\ Len(trace) = 2 /\ trace[2].year # currentYear /\ trace[1].mode # trace[2].mode
  /\ mode = "sea" /\ HasColoured(published)

C6_ModeRoundTrip ==
  (Len(trace) = 2 /\ trace[1].ev = "modeSea" /\ trace[1].mode = "temp"
     /\ trace[2].ev = "modeTemp")
    => /\ mode = "temp" /\ currentYear = trace[1].year
       /\ PerFeature(published) = PerFeature(trace[1].published)

C6_Witness ==
  /\ Len(trace) = 2 /\ trace[1].ev = "modeSea" /\ trace[1].mode = "temp"
  /\ trace[2].ev = "modeTemp" /\ currentYear # InitialYear /\ HasColoured(published)

(***************************************************************************)
(* updateMap called on a rendering surface in any state of readiness       *)
(* (specification SpecUpdate): the data is loaded, the sources and layers  *)
(* are any of those the load handler adds, and the surface may become      *)
(* ready between two calls.                                                *)
(***************************************************************************)
MaxCalls == 2

progVars == <<files, fetched, worldGeom, tempTable, tempByISO, seaData, seaByYear,
              currentYear, mode, loadHandler, mapLoad, sources, layers, published,
              oceanPaint, legend, handlers, ops, trace>>

InitUpdate ==
  /\ files \in [world : WorldFiles, temp : {TempA}, sea : {SeaA, SeaD}]
  /\ fetched = Datasets
  /\ worldGeom = files.world /\ tempTable = files.temp /\ seaData = files.sea
  /\ tempByISO = BuildIndex(files.temp.features, EmptyObject)
  /\ seaByYear = processSeaLevels(files.sea, EmptyObject)
  /\ currentYear \in Years /\ mode \in Modes
  /\ loadHandler = TRUE /\ mapLoad = "pending"
  /\ sources \in SUBSET {"climate", "ocean-mask"}
  /\ layers \in SUBSET {"climate-fill", "ocean-fill"}
  /\ ("climate-fill" \in layers => "climate" \in sources)
  /\ ("ocean-fill" \in layers => "ocean-mask" \in sources)
  /\ published = Undef
  /\ oceanPaint = (IF "ocean-fill" \in layers THEN OceanInitial ELSE Undef)
  /\ legend = Undef /\ handlers = {} /\ ops = <<>> /\ trace = <<>>
  /\ call = [fn |-> "updateMap", n |-> 0, returned |-> FALSE, thrown |-> FALSE, pre |-> Undef]

\* updateMap() is called
CallUpdateMap ==
  /\ call.fn = "updateMap" /\ call.n < MaxCalls
  /\ \E r \in {UpdateMap(sources, layers, worldGeom, tempByISO, seaByYear, currentYear,
                          published, oceanPaint)} :
        /\ published' = r.published
        /\ oceanPaint' = r.oceanPaint
        /\ ops' = r.ops
        /\ call' = [fn |-> "updateMap", n |-> call.n + 1, returned |-> TRUE,
                    thrown |-> r.thrown,
                    pre |-> [sources |-> sources, layers |-> layers, published |-> published,
                             oceanPaint |-> oceanPaint, currentYear |-> currentYear,
                             mode |-> mode]]
  /\ UNCHANGED <<files, fetched, dataVars, currentYear, mode, loadHandler, mapLoad, sources,
                 layers, legend, handlers, trace>>

\* the missing sources and layers are added
SurfaceReady ==
  /\ call.fn = "updateMap"
  /\ sources # {"climate", "ocean-mask"} \/ layers # {"climate-fill", "ocean-fill"}
  /\ sources' = {"climate", "ocean-mask"}
  /\ layers' = {"climate-fill", "ocean-fill"}
  /\ oceanPaint' = (IF "ocean-fill" \in layers THEN oceanPaint ELSE OceanInitial)
  /\ call' = [call EXCEPT !.returned = FALSE]
  /\ UNCHANGED <<files, fetched, dataVars, currentYear, mode, loadHandler, mapLoad, published,
                 legend, handlers, ops, trace>>

NextUpdate == CallUpdateMap \/ SurfaceReady

SpecUpdate == InitUpdate /\ [][NextUpdate]_vars

\* updateMap has just returned
Called == call.fn = "updateMap" /\ call.returned

FnIdle ==
  /\ files = [world |-> WorldA, temp |-> TempA, sea |-> SeaA]
  /\ ProgInit

Absent == [t |-> "absent"]

\* ---- the join key (specification SpecKey) ----
KeyOptions == {Absent, Null, Empty, Blank, Str(<<"A">>), Str(<<" ", "B", " ">>)}

\* the properties that give candidate i the value g[i]
KeyProps(g) ==
  LET present == {i \in 1..Len(KeyCandidates) : g[i] # Absent}
  IN [k \in {KeyCandidates[i] : i \in present} |->
        g[CHOOSE i \in present : KeyCandidates[i] = k]]

InitKey ==
  /\ FnIdle
  /\ \E g \in [1..Len(KeyCandidates) -> KeyOptions] :
       call = [fn |-> "resolveIso", props |-> KeyProps(g), done |-> FALSE, res |-> Undef]

ApplyResolveIso ==
  /\ call.fn = "resolveIso" /\ ~call.done
  /\ call' = [call EXCEPT !.done = TRUE, !.res = ResolveIso(call.props)]
  /\ UNCHANGED progVars

SpecKey == InitKey /\ [][ApplyResolveIso]_vars

\* the first candidate, in the order given, whose trimmed value is not empty
RECURSIVE FirstNonBlank(_, _, _)
FirstNonBlank(props, names, i) ==
  IF i > Len(names) THEN Str(<<>>)
  ELSE LET v == Get(props, names[i])
       IN IF v.t = "str" /\ Trim(v.s) # <<>> THEN v ELSE FirstNonBlank(props, names, i + 1)

\* C7: the key is the trimmed value of the first candidate, in the order ISO3,
\* ISO_A3, ADM0_A3, adm0_a3, SOV_A3, sov_a3, whose trimmed value is not empty,
\* and none when there is no such candidate
C7_FirstNonBlankWins ==
  (call.fn = "resolveIso" /\ call.done)
    => call.res = Str(Trim(FirstNonBlank(call.props, KeyCandidates, 1).s))

\* ---- the index of the table (specification SpecIndex) ----
MaxRows == 3

RowOptions ==
  {Feature(Null, Undef)}
    \cup {Row([v |-> Int2Num(v)]) : v \in 1..2}
    \cup {Row([ISO3 |-> k, v |-> Int2Num(v)]) :
            k \in {Blank, Str(<<"A">>), Str(<<" ", "A">>), Str(<<"B">>)}, v \in 1..2}

InitIndex ==
  /\ FnIdle
  /\ \E n \in 0..MaxRows : \E rows \in [1..n -> RowOptions] :
       call = [fn |-> "buildIndex", rows |-> rows, done |-> FALSE, res |-> EmptyObject]

ApplyBuildIndex ==
  /\ call.fn = "buildIndex" /\ ~call.done
  /\ call' = [call EXCEPT !.done = TRUE, !.res = BuildIndex(call.rows, EmptyObject)]
  /\ UNCHANGED progVars

SpecIndex == InitIndex /\ [][ApplyBuildIndex]_vars

\* the trimmed ISO3 of a row, empty when the row has none
RowKey(row) ==
  LET v == Get(PropsOf(row), "ISO3") IN IF v.t = "str" THEN Trim(v.s) ELSE <<>>

\* C8: the index holds exactly the non-empty trimmed keys of the table, each
\* with the properties of the last row of that key
C8_LastWriteWins ==
  (call.fn = "buildIndex" /\ call.done) =>
    LET rows == call.rows
        keys == {RowKey(rows[i]) : i \in 1..Len(rows)} \ {<<>>}
    IN /\ DOMAIN call.res = keys
       /\ \A k \in keys :
            LET last == CHOOSE i \in 1..Len(rows) :
                          /\ RowKey(rows[i]) = k
                          /\ \A j \in (i + 1)..Len(rows) : RowKey(rows[j]) # k
            IN call.res[k] = Obj(PropsOf(rows[last]))

C8_Witness ==
  /\ call.fn = "buildIndex" /\ call.done
  /\ \E i, j \in 1..Len(call.rows) :
       /\ i < j /\ RowKey(call.rows[i]) = RowKey(call.rows[j]) /\ RowKey(call.rows[i]) # <<>>
       /\ call.rows[i] # call.rows[j]
       /\ call.res[RowKey(call.rows[i])] = call.rows[j].properties
  /\ \E i \in 1..Len(call.rows) : Get(PropsOf(call.rows[i]), "ISO3") = Blank

\* ---- the colour scales (specification SpecColor) ----
ValueBound == 4
DomainBound == 2
TempDomainMin == -2
TempDomainMax == 3

\* the values -ValueBound .. ValueBound in steps of one half
ColorValues == {Num(k, 2) : k \in (-2 * ValueBound)..(2 * ValueBound)}

InitColor ==
  /\ FnIdle
  /\ \E v1 \in ColorValues, v2 \in ColorValues :
     \E lo \in (-DomainBound)..DomainBound, hi \in (-DomainBound)..DomainBound :
       /\ lo < hi
       /\ call = [fn |-> "color", v1 |-> v1, v2 |-> v2, minSea |-> Int2Num(lo),
                  maxSea |-> Int2Num(hi), done |-> FALSE, res |-> Undef]

ApplyColors ==
  /\ call.fn = "color" /\ ~call.done
  /\ call' = [call EXCEPT !.done = TRUE,
                !.res = [temp1 |-> getTempColor(call.v1), temp2 |-> getTempColor(call.v2),
                         sea1 |-> getSeaColor(call.v1, call.minSea, call.maxSea),
                         sea2 |-> getSeaColor(call.v2, call.minSea, call.maxSea)]]
  /\ UNCHANGED progVars

SpecColor == InitColor /\ [][ApplyColors]_vars

InUnit(t) == NumLe(Int2Num(0), t) /\ NumLe(t, Int2Num(1))

\* C9: on both scales the palette position lies in 0 .. 1, does not decrease
\* when the value grows, is 0 at and below the minimum of the domain and 1 at
\* and above its maximum
C9_ClampedMonotone ==
  (call.fn = "color" /\ call.done) =>
    LET r == call.res IN
    /\ r.temp1.palette = "YlOrRd" /\ r.sea1.palette = "Blues"
    /\ InUnit(r.temp1.pos) /\ InUnit(r.temp2.pos) /\ InUnit(r.sea1.pos) /\ InUnit(r.sea2.pos)
    /\ NumLe(call.v1, call.v2)
         => (NumLe(r.temp1.pos, r.temp2.pos) /\ NumLe(r.sea1.pos, r.sea2.pos))
    /\ NumLe(call.v1, Int2Num(TempDomainMin)) => r.temp1.pos = Int2Num(0)
    /\ NumLe(Int2Num(TempDomainMax), call.v1) => r.temp1.pos = Int2Num(1)
    /\ NumLe(call.v1, call.minSea) => r.sea1.pos = Int2Num(0)
    /\ NumLe(call.maxSea, call.v1) => r.sea1.pos = Int2Num(1)

C9_Witness ==
  /\ call.fn = "color" /\ call.done
  /\ NumLt(call.v1, Int2Num(TempDomainMin)) /\ NumLt(call.v1, call.minSea)
  /\ NumLt(Int2Num(TempDomainMin), call.v2) /\ NumLt(call.v2, Int2Num(TempDomainMax))
  /\ NumLt(call.minSea, call.v2) /\ NumLt(call.v2, call.maxSea)
  /\ NumLt(Int2Num(0), call.res.temp2.pos) /\ NumLt(call.res.temp2.pos, Int2Num(1))
  /\ NumLt(Int2Num(0), call.res.sea2.pos) /\ NumLt(call.res.sea2.pos, Int2Num(1))

\* ---- the yearly averages (specification SpecSea) ----
MaxRecords == 3

DateOptions == {Absent, Empty, Date1992a, Date1992b, Date1993}
ValueOptions == {Null, Int2Num(0), Int2Num(10), Int2Num(20)}

\* a record with the given date and value, without the property when absent
SeaRecord(d, v) ==
  Rec([k \in (IF d = Absent THEN {} ELSE {"Date"}) \cup {"Value"} |->
         IF k = "Date" THEN d ELSE v])

SeaRecordOptions == {SeaRecord(d, v) : d \in DateOptions, v \in ValueOptions}

InitSea ==
  /\ FnIdle
  /\ \E n \in 0..MaxRecords : \E recs \in [1..n -> SeaRecordOptions] :
       call = [fn |-> "processSeaLevels", recs |-> recs, done |-> FALSE, res |-> EmptyObject]

ApplyProcessSeaLevels ==
  /\ call.fn = "processSeaLevels" /\ ~call.done
  /\ call' = [call EXCEPT !.done = TRUE,
                !.res = processSeaLevels(Collection(call.recs), EmptyObject)]
  /\ UNCHANGED progVars

SpecSea == InitSea /\ [][ApplyProcessSeaLevels]_vars

\* the year a date of the data ends with
DateYear(d) == IF d \in {Date1992a, Date1992b} THEN 1992 ELSE IF d = Date1993 THEN 1993 ELSE 0

\* the records that have a date of year y and a value
ValidOf(recs, y) ==
  {i \in 1..Len(recs) :
     LET p == PropsOf(recs[i])
     IN /\ HasOwn(p, "Date") /\ p["Date"] # Empty /\ DateYear(p["Date"]) = y
        /\ HasOwn(p, "Value") /\ p["Value"] # Null}

RECURSIVE TotalOf(_, _)
TotalOf(recs, idx) ==
  IF idx = {} THEN 0
  ELSE LET i == CHOOSE i \in idx : TRUE
       IN PropsOf(recs[i])["Value"].n + TotalOf(recs, idx \ {i})

\* C10: the series has an entry for exactly the years of the records that
\* have a date and a value, and the entry is the mean of the values of those
\* records: entry * count = total
C10_YearlyMean ==
  (call.fn = "processSeaLevels" /\ call.done) =>
    LET recs == call.recs
        years == {y \in {1992, 1993} : ValidOf(recs, y) # {}}
    IN /\ DOMAIN call.res = {Int2Num(y) : y \in years}
       /\ \A y \in years :
            LET avg == call.res[Int2Num(y)]
            IN /\ avg.d > 0
               /\ avg.n * Cardinality(ValidOf(recs, y)) = TotalOf(recs, ValidOf(recs, y)) * avg.d

C10_Witness ==
  /\ call.fn = "processSeaLevels" /\ call.done
  /\ call.recs = <<SeaRecord(Date1992a, Int2Num(10)), SeaRecord(Date1992b, Int2Num(20)),
                   SeaRecord(Date1992a, Null)>>
  /\ call.res = (Int2Num(1992) :> Int2Num(15))

\* ---- the temperature lookup (specification SpecTemp) ----
ColumnOptions ==
  {Absent, Null, Empty, Blank, Str(<<"n", "a">>), Str(<<"-", "1">>), Int2Num(2), Num(1, 2)}

\* the row whose columns for the first year hold g[1], g[2], g[3] and whose
\* "F" column for the second year holds h; the row has no column for any
\* later year
TempRow(g, h) ==
  LET cands == YearCandidates(InitialYear)
      present == {i \in 1..Len(cands) : g[i] # Absent}
      first == [k \in {cands[i] : i \in present} |-> g[CHOOSE i \in present : cands[i] = k]]
      next == YearCandidates(InitialYear + 1)[2]
  IN IF h = Absent THEN first ELSE (next :> h) @@ first

InitTemp ==
  /\ FnIdle
  /\ \E g \in [1..3 -> ColumnOptions], h \in {Absent, Int2Num(3)}, y \in Years :
       call = [fn |-> "getTempValue", props |-> TempRow(g, h), year |-> y,
               done |-> FALSE, res |-> Undef]

ApplyGetTempValue ==
  /\ call.fn = "getTempValue" /\ ~call.done
  /\ call' = [call EXCEPT !.done = TRUE, !.res = getTempValue(call.props, call.year)]
  /\ UNCHANGED progVars

SpecTemp == InitTemp /\ [][ApplyGetTempValue]_vars

\* the column names of a year, written out
NamesOf(year) == <<ToString(year), "F" \o ToString(year), "Y" \o ToString(year)>>

\* a column holds a usable value: it is there, not null, not the empty string
\* and its numeric conversion is a number
Usable(props, name) ==
  /\ name \in DOMAIN props
  /\ props[name].t \in {"num", "str"}
  /\ props[name] # Empty
  /\ ~IsNaN(ToNumber(props[name]))

\* C11 as stated: the result is the number in the first column, in the order
\* "<year>", "F<year>", "Y<year>", that holds a usable value, and it is none
\* only when none of the three columns holds one
C11_FirstUsableColumnWins ==
  (call.fn = "getTempValue" /\ call.done) =>
    LET names == NamesOf(call.year)
        usable == {i \in 1..3 : Usable(call.props, names[i])}
    IN IF usable = {} THEN call.res = Null
       ELSE call.res = ToNumber(call.props[names[CHOOSE i \in usable : \A j \in usable : i <= j]])

\* C11 amended: the first column the row has, in the order "<year>",
\* "F<year>", "Y<year>", decides alone: the result is its number when it holds
\* a usable value and none otherwise, whatever the later columns hold; a row
\* with none of the three columns, as for a year it has no data for, gives none
C11_FirstOwnedColumnDecides ==
  (call.fn = "getTempValue" /\ call.done) =>
    LET names == NamesOf(call.year)
        owned == {i \in 1..3 : names[i] \in DOMAIN call.props}
    IN IF owned = {} THEN call.res = Null
       ELSE LET k == names[CHOOSE i \in owned : \A j \in owned : i <= j]
            IN IF Usable(call.props, k) THEN call.res = ToNumber(call.props[k])
               ELSE call.res = Null

\* the row whose "<year>" column is empty and whose "F<year>" column holds 2
C11_Witness ==
  /\ call.fn = "getTempValue" /\ call.done
  /\ call.year = InitialYear
  /\ call.props = (ToString(InitialYear) :> Empty) @@ (("F" \o ToString(InitialYear)) :> Int2Num(2))
  /\ call.res = Null

\* the colour domain of the series is a single value
DegenerateDomain(series) ==
  /\ DOMAIN series # {}
  /\ MathMin(ObjectValues(series)) = MathMax(ObjectValues(series))

\* C12: once updateMap has run on a series whose colour domain is a single
\* value, for a year of the series, the ocean paint is a colour of the palette
\* at a position that is a number between 0 and 1, never at NaN
C12_DegenerateDomainPaintsNumber ==
  (handlers # {} /\ DegenerateDomain(seaByYear) /\ Int2Num(currentYear) \in DOMAIN seaByYear) =>
    /\ oceanPaint.t = "color"
    /\ ~IsNaN(oceanPaint.pos)
    /\ NumLe(Int2Num(0), oceanPaint.pos) /\ NumLe(oceanPaint.pos, Int2Num(1))

\* ---- the page when every fetch succeeds and the map loads (SpecLive) ----
\* the states in which AllLoaded can happen
AllLoadedEnabled == AllResolved(fetched) /\ ~loadHandler
\* the states in which the map has yet to fire "load"
MapLoadEnabled == mapLoad = "pending"

\* every fetch resolves in the end, the callback of Promise.all runs once its
\* promise has resolved, and the map fires "load" once, to whoever listens
\* then: weak fairness of each fetch, of AllLoaded and of "load"; for the
\* last two, WF_vars(A) is written out as []<>~ENABLED <<A>>_vars \/ []<><<A>>_vars
\* with the guard of A for ENABLED <<A>>_vars
Fairness ==
  /\ \A d \in Datasets : WF_vars(FetchDone(d))
  /\ ([]<>~AllLoadedEnabled \/ []<><<AllLoaded>>_vars)
  /\ ([]<>~MapLoadEnabled \/ []<><<MapLoadHandled \/ MapLoadLost>>_vars)

SpecLive == Init /\ [][Next]_vars /\ Fairness

\* the interactive state: source and layers added, the handlers of the
\* controls attached, a feature collection published
Interactive ==
  /\ {"climate", "ocean-mask"} \subseteq sources
  /\ {"climate-fill", "ocean-fill"} \subseteq layers
  /\ handlers = Controls
  /\ published # Undef

\* C13: when every fetch succeeds and the map loads, in whatever order, the
\* page reaches the interactive state
C13_EventuallyInteractive == <>Interactive

====
